---------------------------- MODULE Spec2Model ----------------------------
(***************************************************************************)
(* BookServer routers: books.py (safe_join, return_static_asset,           *)
(* serve_page) and rslogging.py (log_book_event).                          *)
(*                                                                         *)
(* A Python str is a sequence of one-character strings, so that            *)
(* posixpath.normpath, posixpath.join and the checks of safe_join are      *)
(* computed character by character.  Python's None, where a str is         *)
(* expected, is the one-element sequence None below, which no str equals.  *)
(***************************************************************************)
EXTENDS Integers, Sequences, FiniteSets, TLC

\* ------------------------------------------------------------------------
\* Bounds
\* ------------------------------------------------------------------------
MaxTotalLen == 4
MaxSegs == 2
MaxRequests == 2

\* ------------------------------------------------------------------------
\* Strings
\* ------------------------------------------------------------------------
None == <<"None">>

Chars == {"/", ".", "a", "\\"}

Strings(n) == UNION {[1..k -> Chars] : k \in 0..n}

sep == "/"
dot == <<".">>
dotdot == <<".", ".">>

startswith(s, p) == Len(s) >= Len(p) /\ SubSeq(s, 1, Len(p)) = p

endswith(s, p) == Len(s) >= Len(p) /\ SubSeq(s, Len(s) - Len(p) + 1, Len(s)) = p

contains(s, c) == \E i \in 1..Len(s) : s[i] = c

\* str.split(sep): the components between the separators, empty ones kept.
RECURSIVE split(_)
split(s) ==
    IF \A i \in 1..Len(s) : s[i] # sep
    THEN <<s>>
    ELSE LET i == CHOOSE j \in 1..Len(s) :
                      s[j] = sep /\ \A k \in 1..(j - 1) : s[k] # sep
         IN  <<SubSeq(s, 1, i - 1)>> \o split(SubSeq(s, i + 1, Len(s)))

\* sep.join(comps)
RECURSIVE sepjoin(_)
sepjoin(comps) ==
    IF comps = <<>> THEN <<>>
    ELSE IF Len(comps) = 1 THEN comps[1]
    ELSE comps[1] \o <<sep>> \o sepjoin(Tail(comps))

\* The loop of posixpath.normpath over the components.
RECURSIVE normcomps(_, _, _)
normcomps(comps, new_comps, initial_slashes) ==
    IF comps = <<>> THEN new_comps
    ELSE LET comp == Head(comps)
             rest == Tail(comps)
         IN  IF comp = <<>> \/ comp = dot
             THEN normcomps(rest, new_comps, initial_slashes)
             ELSE IF \/ comp # dotdot
                     \/ (initial_slashes = 0 /\ new_comps = <<>>)
                     \/ (new_comps # <<>> /\ new_comps[Len(new_comps)] = dotdot)
             THEN normcomps(rest, Append(new_comps, comp), initial_slashes)
             ELSE IF new_comps # <<>>
             THEN normcomps(rest, SubSeq(new_comps, 1, Len(new_comps) - 1),
                            initial_slashes)
             ELSE normcomps(rest, new_comps, initial_slashes)

\* posixpath.normpath
normpath(path) ==
    IF path = <<>> THEN dot
    ELSE LET initial_slashes ==
                 IF ~startswith(path, <<sep>>) THEN 0
                 ELSE IF startswith(path, <<sep, sep>>)
                         /\ ~startswith(path, <<sep, sep, sep>>)
                      THEN 2 ELSE 1
             comps == normcomps(split(path), <<>>, initial_slashes)
             joined == sepjoin(comps)
             out == IF initial_slashes = 2 THEN <<sep, sep>> \o joined
                    ELSE IF initial_slashes = 1 THEN <<sep>> \o joined
                    ELSE joined
         IN  IF out = <<>> THEN dot ELSE out

\* join2 without the separator it puts between the parts.
join2_nosep(path, b) == path \o b

\* One step of the loop of posixpath.join(a, *p).

join2(path, b) ==
    IF startswith(b, <<sep>>) THEN b
    ELSE IF path = <<>> \/ endswith(path, <<sep>>) THEN path \o b
    ELSE path \o <<sep>> \o b

RECURSIVE posixpath_join(_)
posixpath_join(parts) ==
    IF Len(parts) = 1 THEN parts[1]
    ELSE posixpath_join(<<join2(parts[1], parts[2])>> \o SubSeq(parts, 3, Len(parts)))

\* ------------------------------------------------------------------------
\* The host platform: os.path is posixpath or ntpath.
\* ------------------------------------------------------------------------
Platforms == {"posix", "nt"}

os_path_sep(platform) == IF platform = "nt" THEN "\\" ELSE "/"

\* Python's None for posixpath.altsep is the string "None" here.
os_path_altsep(platform) == IF platform = "nt" THEN "/" ELSE "None"

\* os.path.isabs for a str with no drive letter, as the library documents
\* it: the path begins with a slash, or on Windows with a slash or backslash.
os_path_isabs(platform, s) ==
    /\ s # <<>>
    /\ \/ s[1] = "/"
       \/ platform = "nt" /\ s[1] = "\\"

os_alt_seps(platform) ==
    {c \in {os_path_sep(platform), os_path_altsep(platform)} : c \notin {"None", "/"}}

\* ------------------------------------------------------------------------
\* safe_join
\* ------------------------------------------------------------------------
has_alt_sep(platform, filename) ==
    \E c \in os_alt_seps(platform) : contains(filename, c)

\* escapes without the test filename == "..".
escapes_no_dotdot(platform, filename) ==
    \/ os_path_isabs(platform, filename)
    \/ startswith(filename, <<".", ".", "/">>)

\* Line 254.
escapes(platform, filename) ==
    \/ os_path_isabs(platform, filename)
    \/ filename = dotdot
    \/ startswith(filename, <<".", ".", "/">>)

normalized(filename) == IF filename # <<>> THEN normpath(filename) ELSE filename

RECURSIVE safe_join_loop(_, _, _)
safe_join_loop(platform, parts, pathnames) ==
    IF pathnames = <<>> THEN posixpath_join(parts)
    ELSE LET filename == normalized(Head(pathnames))
         IN  IF has_alt_sep(platform, filename) THEN None
             ELSE IF escapes(platform, filename) THEN None
             ELSE safe_join_loop(platform, Append(parts, filename), Tail(pathnames))

safe_join(platform, directory, pathnames) ==
    safe_join_loop(platform, <<directory>>, pathnames)

\* ------------------------------------------------------------------------
\* Collaborators: settings, the course store, the template directories, the
\* file system, users of the session middleware.
\* ------------------------------------------------------------------------
book_path == <<"/", "b">>
login_url == "/runestone/default/user/login"
courses_url == "/runestone/default/courses"

str_build == <<"b", "u", "i", "l", "d">>
str_published == <<"p", "u", "b", "l", "i", "s", "h", "e", "d">>
str_images == <<"_", "i", "m", "a", "g", "e", "s">>
str_static == <<"_", "s", "t", "a", "t", "i", "c">>

\* request.state.user: a user record, or UserNone when nobody is logged in.
UserNone == [username |-> "None", email |-> "None", course_name |-> "None"]

Users ==
    {[username |-> "alice", email |-> "alice@x", course_name |-> "c_login"],
     [username |-> "bob", email |-> "bob@x", course_name |-> "c_attr"]}

truthy(user) == user # UserNone

CourseNames == {"c_login", "c_open", "c_attr", "c_gone"}

CourseNone == [id |-> 0, base_course |-> <<>>, login_required |-> FALSE,
               downloads_enabled |-> FALSE, allow_pairs |-> FALSE]

fetch_course(course_name) ==
    CASE course_name = "c_login" ->
           [id |-> 1, base_course |-> <<"a">>, login_required |-> TRUE,
            downloads_enabled |-> TRUE, allow_pairs |-> FALSE]
      [] course_name = "c_open" ->
           [id |-> 2, base_course |-> <<"a">>, login_required |-> FALSE,
            downloads_enabled |-> FALSE, allow_pairs |-> TRUE]
      [] course_name = "c_attr" ->
           [id |-> 3, base_course |-> <<"a">>, login_required |-> FALSE,
            downloads_enabled |-> FALSE, allow_pairs |-> FALSE]
      [] OTHER -> CourseNone

\* A Python dict with str keys is a function on its keys.
EmptyDict == [k \in {} |-> ""]

fetch_all_course_attributes(id) ==
    CASE id = 2 -> [k \in {"markup_system"} |-> "PreTeXt"]
      [] id = 3 -> [k \in {"user_id", "enable_compare_me"} |->
                       IF k = "user_id" THEN "mallory" ELSE "false"]
      [] OTHER -> EmptyDict

is_instructor(user) == user.username = "alice"

fetch_page_activity_counts(user, course_name) == "{\"q1\": 1}"

PagePaths == {"index.html", "ch/missing.html"}

\* The templates on disk: (directory, name).
Templates ==
    {<<book_path \o <<sep, "a", sep>> \o str_published \o <<sep, "a">>,
       "index.html">>}

\* The files and directories below book_path, normalized.
FsEntries ==
    LET root == book_path \o <<sep, "a", sep>> \o str_build \o <<sep, "a">>
    IN  {book_path, root,
         root \o <<sep>> \o str_static,
         root \o <<sep>> \o str_static \o <<sep, "a">>,
         root \o <<sep>> \o str_images}

\* os.path.exists: TypeError for None; else whether the path names an entry.
os_path_exists(path) ==
    IF path = None THEN "TypeError"
    ELSE IF normpath(path) \in FsEntries THEN "True" ELSE "False"

\* ------------------------------------------------------------------------
\* Responses
\* ------------------------------------------------------------------------
NoResponse ==
    [status |-> 0, kind |-> "none", location |-> "", file |-> <<>>,
     template |-> <<<<>>, "">>, context |-> EmptyDict, delimiters |-> "",
     json_status |-> "", idx |-> 0]

HTTPException(status_code) ==
    [NoResponse EXCEPT !.status = status_code, !.kind = "error"]

RedirectResponse(url) ==
    [NoResponse EXCEPT !.status = 307, !.kind = "redirect", !.location = url]

FileResponse(path) ==
    [NoResponse EXCEPT !.status = 200, !.kind = "file", !.file = path]

TemplateResponse(dir, name, context, delimiters) ==
    [NoResponse EXCEPT !.status = 200, !.kind = "html", !.template = <<dir, name>>,
                       !.context = context, !.delimiters = delimiters]

\* An exception no handler catches: the server answers 500.
ServerError == [NoResponse EXCEPT !.status = 500, !.kind = "error"]

JsonResponse(json_status, idx) ==
    [NoResponse EXCEPT !.status = 200, !.kind = "json",
                       !.json_status = json_status, !.idx = idx]

\* ------------------------------------------------------------------------
\* return_static_asset
\* ------------------------------------------------------------------------
static_response(filepath) ==
    CASE os_path_exists(filepath) = "TypeError" -> ServerError
      [] os_path_exists(filepath) = "True" -> FileResponse(filepath)
      [] OTHER -> HTTPException(404)

return_static_asset(pf, course, kind, filepath) ==
    LET course_row == fetch_course(course)
    IN  IF course_row = CourseNone
        THEN ServerError   \* None.base_course: AttributeError
        ELSE static_response(
                 safe_join(pf, book_path,
                           <<course_row.base_course, str_build,
                             course_row.base_course, kind, filepath>>))

\* ------------------------------------------------------------------------
\* serve_page
\* ------------------------------------------------------------------------
\* access without the login_required test of line 136.
access_no_login_check(course_row, user, course_name) ==
    IF course_row = CourseNone THEN "notfound"
    ELSE IF truthy(user) /\ user.course_name # course_name THEN "courses"
    ELSE "proceed"

\* access without the active-course test of line 141.
access_no_course_check(course_row, user, course_name) ==
    IF course_row = CourseNone THEN "notfound"
    ELSE IF course_row.login_required /\ ~truthy(user) THEN "login"
    ELSE "proceed"

\* The checks of lines 132-142: what the handler does after fetch_course.
access(course_row, user, course_name) ==
    IF course_row = CourseNone THEN "notfound"
    ELSE IF course_row.login_required /\ ~truthy(user) THEN "login"
    ELSE IF truthy(user) /\ user.course_name # course_name THEN "courses"
    ELSE "proceed"

\* view_event with sid=user.username whoever asks.
view_event_username(user, course_name, pagepath, timestamp) ==
    [event |-> "page", act |-> "view", div_id |-> pagepath,
     course_id |-> course_name, sid |-> user.username, timestamp |-> timestamp]

\* UseinfoValidation(event="page", act="view", ...), lines 186-193.
view_event(user, course_name, pagepath, timestamp) ==
    [event |-> "page", act |-> "view", div_id |-> pagepath,
     course_id |-> course_name,
     sid |-> IF truthy(user) THEN user.username ELSE "Anonymous",
     timestamp |-> timestamp]

\* course_attrs after lines 180-181.
with_compare_me(course_attrs) ==
    IF "enable_compare_me" \notin DOMAIN course_attrs
    THEN [k \in DOMAIN course_attrs \cup {"enable_compare_me"} |->
             IF k = "enable_compare_me" THEN "true" ELSE course_attrs[k]]
    ELSE course_attrs

\* The keyword arguments of dict(...) written out in lines 196-210.  The
\* values are strings here; True, False and [] are written as Python prints
\* them.
fixed_context(user, course_name, course_row) ==
    [k \in {"request", "course_name", "base_course", "user_id",
            "new_server_prefix", "user_email", "downloads_enabled",
            "allow_pairs", "activity_info", "settings", "is_logged_in",
            "serve_ad", "is_instructor", "readings"} |->
        CASE k = "request" -> "request"
          [] k = "course_name" -> course_name
          [] k = "base_course" -> course_row.base_course
          [] k = "user_id" -> IF truthy(user) THEN user.username ELSE ""
          [] k = "new_server_prefix" -> "/ns"
          [] k = "user_email" -> IF truthy(user) THEN user.email ELSE ""
          [] k = "downloads_enabled" ->
                 IF course_row.downloads_enabled THEN "true" ELSE "false"
          [] k = "allow_pairs" ->
                 IF course_row.allow_pairs THEN "true" ELSE "false"
          [] k = "activity_info" ->
                 IF truthy(user) THEN fetch_page_activity_counts(user, course_name)
                 ELSE "{}"
          [] k = "settings" -> "settings"
          [] k = "is_logged_in" -> IF truthy(user) THEN "true" ELSE "false"
          [] k = "serve_ad" -> IF truthy(user) THEN "False" ELSE "True"
          [] k = "is_instructor" ->
                 IF truthy(user) /\ is_instructor(user) THEN "true" ELSE "false"
          [] k = "readings" -> "[]"]

\* dict_kwargs as {**fixed, **course_attrs} would build it: attributes win.
dict_attrs_override(fixed, course_attrs) ==
    [error |-> FALSE,
     value |-> [k \in DOMAIN fixed \cup DOMAIN course_attrs |->
                   IF k \in DOMAIN course_attrs THEN course_attrs[k] ELSE fixed[k]]]

\* dict(k1=v1, ..., **course_attrs): a keyword given twice is a TypeError.
dict_kwargs(fixed, course_attrs) ==
    IF DOMAIN fixed \cap DOMAIN course_attrs # {}
    THEN [error |-> TRUE, value |-> EmptyDict]
    ELSE [error |-> FALSE,
          value |-> [k \in DOMAIN fixed \cup DOMAIN course_attrs |->
                        IF k \in DOMAIN fixed THEN fixed[k] ELSE course_attrs[k]]]

\* The delimiters of templates.env after lines 171-177.
delimiters(course_attrs) ==
    IF "markup_system" \in DOMAIN course_attrs
       /\ course_attrs["markup_system"] = "PreTeXt"
    THEN "~._ _.~ @@# #@@" ELSE "{{ }} {# #}"

\* page_tail with the insert moved behind a successful render.
page_tail_render_first(event, context, dir, pagepath, delims) ==
    IF context.error THEN [inserted |-> <<>>, response |-> ServerError]
    ELSE IF <<dir, pagepath>> \in Templates
    THEN [inserted |-> <<event>>,
          response |-> TemplateResponse(dir, pagepath, context.value, delims)]
    ELSE [inserted |-> <<>>, response |-> HTTPException(404)]

\* Lines 185-220 in the order of the code: the insert, the context, the
\* render.  inserted: the events given to create_useinfo_entry.
page_tail(event, context, dir, pagepath, delims) ==
    [inserted |-> <<event>>,
     response |->
        IF context.error THEN ServerError
        ELSE IF <<dir, pagepath>> \in Templates
        THEN TemplateResponse(dir, pagepath, context.value, delims)
        ELSE HTTPException(404)]

serve_page(pf, user, course_name, pagepath, timestamp) ==
    LET course_row == fetch_course(course_name)
        a == access(course_row, user, course_name)
    IN  CASE a = "notfound" -> [inserted |-> <<>>, response |-> HTTPException(404)]
          [] a = "login" -> [inserted |-> <<>>, response |-> RedirectResponse(login_url)]
          [] a = "courses" ->
                 [inserted |-> <<>>, response |-> RedirectResponse(courses_url)]
          [] OTHER ->
                 LET dir == safe_join(pf, book_path,
                                      <<course_row.base_course, str_published,
                                        course_row.base_course>>)
                     course_attrs == fetch_all_course_attributes(course_row.id)
                     attrs == with_compare_me(course_attrs)
                 IN  page_tail(view_event(user, course_name, pagepath, timestamp),
                               dict_kwargs(fixed_context(user, course_name, course_row),
                                           attrs),
                               dir, pagepath, delimiters(course_attrs))

\* ------------------------------------------------------------------------
\* log_book_event
\* ------------------------------------------------------------------------
\* crud.EVENT2TABLE: the answer-bearing event kinds and their tables.
EVENT2TABLE ==
    [k \in {"mChoice", "fillb"} |->
        IF k = "mChoice" THEN "mchoice_answers" ELSE "fitb_answers"]

EventKinds == {"mChoice", "fillb", "video"}

PayloadSids == {"alice", "mallory"}

\* LogItemIncoming payloads.
Entries ==
    [event : EventKinds, act : {"answer:1:correct"}, div_id : {"q1"},
     course_name : {"c_open"}, sid : PayloadSids, timestamp : {99},
     answer : {"1"}]

\* entry_sid without the overwrite: the payload's sid.
entry_sid_kept(user, entry) == entry.sid

\* Lines 50-53.

entry_sid(user, entry) == IF truthy(user) THEN user.username ELSE "Anonymous"

\* Lines 50-56: the entry with sid and timestamp overwritten.
stamped(user, entry, utcnow) ==
    [entry EXCEPT !.sid = entry_sid(user, entry), !.timestamp = utcnow]

\* Lines 58-63: entry.dict() with course_name renamed, as UseinfoValidation
\* keeps it.
useinfo_entry(entry) ==
    [event |-> entry.event, act |-> entry.act, div_id |-> entry.div_id,
     course_id |-> entry.course_name, sid |-> entry.sid,
     timestamp |-> entry.timestamp]

\* in_EVENT2TABLE answering no for every kind.
in_EVENT2TABLE_never(event) == FALSE

\* Line 66.

in_EVENT2TABLE(event) == event \in DOMAIN EVENT2TABLE

\* Line 68: validation_tables[table_name].from_orm(entry)
valid_table(entry) ==
    [table |-> EVENT2TABLE[entry.event], sid |-> entry.sid,
     div_id |-> entry.div_id, course_name |-> entry.course_name,
     timestamp |-> entry.timestamp, answer |-> entry.answer]

\* schema_ok: whether UseinfoValidation accepts the translated payload (line
\*   63; a payload it refuses is answered 422 before anything is inserted).
\* next_idx: the identifier create_useinfo_entry returns for the new row; a
\*   falsy one is answered FAIL (lines 72-75).
log_book_event(user, entry0, utcnow, schema_ok, next_idx) ==
    LET entry == stamped(user, entry0, utcnow)
    IN  IF ~schema_ok
        THEN [inserted |-> <<>>, answers |-> <<>>, response |-> HTTPException(422)]
        ELSE [inserted |-> <<useinfo_entry(entry)>>,
              answers |-> IF in_EVENT2TABLE(entry.event)
                          THEN <<valid_table(entry)>> ELSE <<>>,
              response |-> IF next_idx # 0 THEN JsonResponse("OK", next_idx)
                           ELSE JsonResponse("FAIL", 0)]

\* ------------------------------------------------------------------------
\* State
\* ------------------------------------------------------------------------
\* platform: the host's os.path flavour.
\* directory, pathnames, joined: the arguments and the result of a direct
\*   call of safe_join.
\* useinfo, answers: the rows of the useinfo table and of the answer tables.
\* now: the server clock (datetime.utcnow()).
\* request, response: the request last handled and its response.
VARIABLES platform, directory, pathnames, joined,
          useinfo, answers, now, request, response

jvars == <<platform, directory, pathnames, joined>>
svars == <<useinfo, answers, now, request, response>>
vars == <<platform, directory, pathnames, joined,
          useinfo, answers, now, request, response>>

Unset == <<"Unset">>

Directories == {<<"/", "a">>, <<"a", "/">>, <<>>}

\* The pathnames: a str of at most n characters cut into at most m segments.
Cuts(t, k) ==
    {c \in [1..(k - 1) -> 0..Len(t)] : \A i \in 1..(k - 2) : c[i] <= c[i + 1]}

Segments(t, k, c) ==
    [i \in 1..k |->
        SubSeq(t, (IF i = 1 THEN 0 ELSE c[i - 1]) + 1,
                  IF i = k THEN Len(t) ELSE c[i])]

SegSeqs(n, m) ==
    {<<>>} \cup
    UNION {UNION {{Segments(t, k, c) : c \in Cuts(t, k)} : k \in 1..m}
             : t \in Strings(n)}

\* The file paths asked of get_image and get_static.
FilePaths ==
    {<<"a">>, <<"a", "a">>, <<"a", "/", ".", ".", "/", "a">>,
     <<".", ".", "/", ".", ".", "/", "a">>, <<"/", "a">>, <<"a", "\\", "a">>}

NoEntry ==
    [event |-> "", act |-> "", div_id |-> "", course_name |-> "", sid |-> "",
     timestamp |-> 0, answer |-> ""]

NoRequest ==
    [handler |-> "none", user |-> UserNone, course |-> "", pagepath |-> "",
     kind |-> <<>>, filepath |-> <<>>, entry |-> NoEntry, schema_ok |-> TRUE,
     timestamp |-> 0]

InitStores ==
    /\ useinfo = <<>>
    /\ answers = <<>>
    /\ now = 0
    /\ request = NoRequest
    /\ response = NoResponse

InitJoin ==
    /\ pathnames \in SegSeqs(MaxTotalLen, MaxSegs)
    /\ platform \in Platforms
    /\ directory \in Directories
    /\ joined = Unset
    /\ InitStores

SafeJoin ==
    /\ joined = Unset
    /\ joined' = safe_join(platform, directory, pathnames)
    /\ UNCHANGED <<platform, directory, pathnames>>
    /\ UNCHANGED svars

NextJoin == SafeJoin

SpecJoin == InitJoin /\ [][NextJoin]_vars

Init ==
    /\ platform \in Platforms
    /\ directory = book_path
    /\ pathnames = <<>>
    /\ joined = Unset
    /\ InitStores

GetStatic ==
    \E course \in CourseNames, kind \in {str_images, str_static},
       filepath \in FilePaths :
        /\ now < MaxRequests
        /\ now' = now + 1
        /\ request' = [NoRequest EXCEPT !.handler = "return_static_asset",
                                        !.course = course, !.kind = kind,
                                        !.filepath = filepath,
                                        !.timestamp = now']
        /\ response' = return_static_asset(platform, course, kind, filepath)
        /\ UNCHANGED <<useinfo, answers>>
        /\ UNCHANGED jvars

ServePage ==
    \E user \in Users \cup {UserNone}, course_name \in CourseNames,
       pagepath \in PagePaths :
        LET out == serve_page(platform, user, course_name, pagepath, now + 1)
        IN  /\ now < MaxRequests
            /\ now' = now + 1
            /\ request' = [NoRequest EXCEPT !.handler = "serve_page",
                                            !.user = user, !.course = course_name,
                                            !.pagepath = pagepath,
                                            !.timestamp = now']
            /\ useinfo' = useinfo \o out.inserted
            /\ response' = out.response
            /\ UNCHANGED answers
            /\ UNCHANGED jvars

LogBookEvent ==
    \E user \in Users \cup {UserNone}, entry \in Entries, schema_ok \in BOOLEAN :
        LET out == log_book_event(user, entry, now + 1, schema_ok, Len(useinfo) + 1)
        IN  /\ now < MaxRequests
            /\ now' = now + 1
            /\ request' = [NoRequest EXCEPT !.handler = "log_book_event",
                                            !.user = user, !.entry = entry,
                                            !.schema_ok = schema_ok,
                                            !.timestamp = now']
            /\ useinfo' = useinfo \o out.inserted
            /\ answers' = answers \o out.answers
            /\ response' = out.response
            /\ UNCHANGED jvars

Next == GetStatic \/ ServePage \/ LogBookEvent

Spec == Init /\ [][Next]_vars

\* ------------------------------------------------------------------------
\* Properties of safe_join (checked under SpecJoin)
\* ------------------------------------------------------------------------
NonEmpty(c) == c # <<>>

\* The path components of a str, empty ones dropped.
Pieces(p) == SelectSeq(split(p), NonEmpty)

NotDot(c) == c # dot

\* The components of a path once normalized.
NormPieces(p) == SelectSeq(Pieces(normpath(p)), NotDot)

HasDotDotComponent(s) == \E i \in 1..Len(split(s)) : split(s)[i] = dotdot

HasAltSeparator(pf, s) == pf = "nt" /\ contains(s, "\\")

\* The segment climbs out after normalization: its first component is `..`.
ClimbsOut(s) == s # <<>> /\ Head(split(normpath(s))) = dotdot

\* The segment, after normalization, is one safe_join is to reject: it
\* climbs out, is an absolute path of the platform, or holds an alternate
\* separator of the platform.
Unsafe(pf, s) ==
    \/ ClimbsOut(s)
    \/ os_path_isabs(pf, normpath(s)) /\ s # <<>>
    \/ HasAltSeparator(pf, normpath(s))

\* result lies lexically inside base: it is base followed by components
\* none of which is `..`.
Inside(pf, result, base) ==
    LET r == NormPieces(result)
        b == NormPieces(base)
    IN  /\ os_path_isabs(pf, result) = os_path_isabs(pf, base)
        /\ Len(r) >= Len(b)
        /\ SubSeq(r, 1, Len(b)) = b
        /\ \A i \in (Len(b) + 1)..Len(r) : r[i] # dotdot

RECURSIVE AllPieces(_)
AllPieces(segs) ==
    IF segs = <<>> THEN <<>>
    ELSE Pieces(normalized(Head(segs))) \o AllPieces(Tail(segs))

\* C1 as written: whenever some segment contains a `..` component, is an
\* absolute path or contains an alternate separator of the platform,
\* safe_join returns None; and a path it returns lies inside the base
\* directory.
C1_AnyDotDotRejected ==
    joined # Unset =>
        /\ (\E i \in 1..Len(pathnames) :
               \/ HasDotDotComponent(pathnames[i])
               \/ os_path_isabs(platform, pathnames[i])
               \/ HasAltSeparator(platform, pathnames[i]))
           => joined = None
        /\ joined # None => Inside(platform, joined, directory)

\* C1 amended: whenever some segment, after normalization, is `..`, begins
\* with `../`, is an absolute path or contains an alternate separator of the
\* platform, safe_join returns None; and a path it returns lies inside the
\* base directory.
C1_TraversalRejected ==
    joined # Unset =>
        /\ (\E i \in 1..Len(pathnames) : Unsafe(platform, pathnames[i]))
           => joined = None
        /\ joined # None => Inside(platform, joined, directory)

\* A second segment that only normalization turns into `..` was rejected.
C1_Witness ==
    /\ joined = None
    /\ Len(pathnames) = 2
    /\ pathnames[2] # dotdot
    /\ normpath(pathnames[2]) = dotdot
    /\ ~Unsafe(platform, pathnames[1])

\* C2: when safe_join does not reject, the path it returns begins with the
\* base directory and its components are those of the base directory
\* followed by those of the normalized segments, in order; and it does not
\* reject when no segment, after normalization, climbs out, is absolute or
\* has an alternate separator.
C2_JoinedUnderBase ==
    joined # Unset =>
        /\ joined # None =>
              /\ startswith(joined, directory)
              /\ Pieces(joined) = Pieces(directory) \o AllPieces(pathnames)
        /\ (\A i \in 1..Len(pathnames) : ~Unsafe(platform, pathnames[i]))
           => joined # None

\* Two segments were joined, the first of them changed by normalization.
C2_Witness ==
    /\ joined # Unset
    /\ joined # None
    /\ Len(pathnames) = 2
    /\ pathnames[1] # <<>>
    /\ pathnames[2] # <<>>
    /\ normpath(pathnames[1]) # pathnames[1]
    /\ directory = <<"/", "a">>

\* ------------------------------------------------------------------------
\* Properties of the handlers (checked under Spec)
\* ------------------------------------------------------------------------
\* The rows written while the request stamped t was handled.
StampedAt(rows, t) == SelectSeq(rows, LAMBDA e : e.timestamp = t)

EventsOfRequest == StampedAt(useinfo, request.timestamp)

AnswersOfRequest == StampedAt(answers, request.timestamp)

IsPage == request.handler = "serve_page"

IsStatic == request.handler = "return_static_asset"

IsLog == request.handler = "log_book_event"

RequestCourse == fetch_course(request.course)

RequestSid == IF request.user # UserNone THEN request.user.username ELSE "Anonymous"

\* The request passed the checks of serve_page: the course exists, and the
\* user is logged in to it or it needs no login.
Accessible ==
    /\ RequestCourse # CourseNone
    /\ request.user = UserNone => ~RequestCourse.login_required
    /\ request.user # UserNone => request.user.course_name = request.course

FixedKeys ==
    {"request", "course_name", "base_course", "user_id", "new_server_prefix",
     "user_email", "downloads_enabled", "allow_pairs", "activity_info",
     "settings", "is_logged_in", "serve_ad", "is_instructor", "readings"}

RequestAttrs == fetch_all_course_attributes(RequestCourse.id)

Shadowing == DOMAIN RequestAttrs \cap FixedKeys # {}

TemplateMissing == request.pagepath # "index.html"

\* The path safe_join gives for the static asset asked for.
RequestedFile ==
    safe_join(platform, book_path,
              <<RequestCourse.base_course, str_build, RequestCourse.base_course,
                request.kind, request.filepath>>)

\* C3 as written: a static-asset request on an existing course whose
\* filepath safe_join rejects is answered 404.
C3_TraversalIs404 ==
    (IsStatic /\ RequestCourse # CourseNone /\ RequestedFile = None)
        => response.status = 404

\* C4: an anonymous serve_page request to a course that requires login is
\* answered by a redirect to the login location, renders no template and
\* inserts no view event.
C4_LoginRedirect ==
    (IsPage /\ request.user = UserNone
            /\ RequestCourse # CourseNone /\ RequestCourse.login_required)
        => /\ response.kind = "redirect"
           /\ response.location = login_url
           /\ response.template = NoResponse.template
           /\ EventsOfRequest = <<>>

\* An anonymous request to the login-only course, after an earlier request
\* that did insert an event.
C4_Witness ==
    /\ IsPage
    /\ request.user = UserNone
    /\ request.course = "c_login"
    /\ response.kind = "redirect"
    /\ Len(useinfo) = 1

\* C5 as written: a serve_page request of a logged-in user whose active
\* course is not the requested one is answered by a redirect to the
\* course-selection location.
C5_MismatchRedirects ==
    (IsPage /\ request.user # UserNone
            /\ request.user.course_name # request.course)
        => /\ response.kind = "redirect"
           /\ response.location = courses_url

\* C5 amended: a serve_page request for an existing course, of a logged-in
\* user whose active course is not that course, is answered by a redirect to
\* the course-selection location, never by a 404 or a rendered page.
C5_MismatchRedirectsExisting ==
    (IsPage /\ request.user # UserNone
            /\ request.user.course_name # request.course
            /\ RequestCourse # CourseNone)
        => /\ response.kind = "redirect"
           /\ response.location = courses_url
           /\ response.status # 404
           /\ EventsOfRequest = <<>>

\* A logged-in user asked for another, login-only, course.
C5_Witness ==
    /\ IsPage
    /\ request.user # UserNone
    /\ request.user.course_name # request.course
    /\ RequestCourse # CourseNone
    /\ RequestCourse.login_required
    /\ response.location = courses_url

\* C6: a serve_page request that renders a page has inserted exactly one
\* event, a page view whose sid is the user's username, or "Anonymous" when
\* nobody is logged in.
C6_OneViewEvent ==
    (IsPage /\ response.kind = "html")
        => EventsOfRequest =
               <<[event |-> "page", act |-> "view", div_id |-> request.pagepath,
                  course_id |-> request.course, sid |-> RequestSid,
                  timestamp |-> request.timestamp]>>

\* An anonymous render after another request that inserted an event.
C6_Witness ==
    /\ IsPage
    /\ response.kind = "html"
    /\ request.user = UserNone
    /\ Len(useinfo) = 2

C8_PayloadSidIgnored ==
    IsLog =>
        /\ \A s \in PayloadSids \cup {"Anonymous", "bob"} :
              LET other == log_book_event(request.user,
                                          [request.entry EXCEPT !.sid = s],
                                          request.timestamp, request.schema_ok,
                                          response.idx)
              IN  /\ EventsOfRequest = other.inserted
                  /\ AnswersOfRequest = other.answers
        /\ \A i \in 1..Len(EventsOfRequest) : EventsOfRequest[i].sid = RequestSid
        /\ \A i \in 1..Len(AnswersOfRequest) : AnswersOfRequest[i].sid = RequestSid

\* An answer was logged whose payload named a user other than the caller.
C8_Witness ==
    /\ IsLog
    /\ request.schema_ok
    /\ request.entry.sid # RequestSid
    /\ Len(EventsOfRequest) = 1
    /\ Len(AnswersOfRequest) = 1

\* C9 as written: when a course attribute has the name of a fixed context
\* key, the page is rendered with the attribute's value under that key.
C9_AttributeOverrides ==
    (IsPage /\ Accessible /\ ~TemplateMissing /\ Shadowing)
        => /\ response.kind = "html"
           /\ \A k \in DOMAIN RequestAttrs \cap FixedKeys :
                 response.context[k] = RequestAttrs[k]

\* C9 amended: when a course attribute has the name of a fixed context key,
\* building the context fails: the request ends in a server error with the
\* view event already inserted and nothing rendered.  Otherwise the rendered
\* context holds every course attribute under its own name beside the fixed
\* keys.
C9_AttributeClashFails ==
    (IsPage /\ Accessible) =>
        /\ Shadowing =>
              /\ response.status = 500
              /\ response.template = NoResponse.template
              /\ Len(EventsOfRequest) = 1
        /\ (~Shadowing /\ ~TemplateMissing) =>
              /\ response.kind = "html"
              /\ FixedKeys \subseteq DOMAIN response.context
              /\ response.context["user_id"] =
                     (IF request.user # UserNone THEN request.user.username ELSE "")
              /\ \A k \in DOMAIN RequestAttrs :
                     response.context[k] = RequestAttrs[k]

\* A request for an existing page of the course whose attributes name user_id.
C9_Witness ==
    /\ IsPage
    /\ Accessible
    /\ Shadowing
    /\ ~TemplateMissing
    /\ response.status = 500

\* C10 as written: a request that passes the checks and whose template does
\* not exist ends in 404 with exactly one view event inserted; a request
\* ending in the course-not-found 404 or in a redirect has inserted none.
C10_InsertBeforeRender ==
    IsPage =>
        /\ (Accessible /\ TemplateMissing) =>
              /\ response.status = 404
              /\ Len(EventsOfRequest) = 1
        /\ (RequestCourse = CourseNone \/ response.kind = "redirect") =>
              EventsOfRequest = <<>>

\* C10 amended: a request that passes the checks and whose template does not
\* exist has exactly one view event inserted and ends in 404, or in a server
\* error when a course attribute has the name of a fixed context key; a
\* request ending in the course-not-found 404 or in a redirect has inserted
\* none.
C10_InsertBeforeContextAndRender ==
    IsPage =>
        /\ (Accessible /\ TemplateMissing) =>
              /\ Len(EventsOfRequest) = 1
              /\ response.status = IF Shadowing THEN 500 ELSE 404
        /\ (RequestCourse = CourseNone \/ response.kind = "redirect") =>
              EventsOfRequest = <<>>

\* A logged-in request for a missing page of the user's own course.
C10_Witness ==
    /\ IsPage
    /\ Accessible
    /\ TemplateMissing
    /\ request.user # UserNone
    /\ response.status = 404
    /\ Len(EventsOfRequest) = 1

=============================================================================
